---- MODULE Spec2Model ----
(***************************************************************************)
(* QuizBot: process_csv_content (src/main.py).  A CSV text is parsed, its   *)
(* header row is matched against the seven required headers, and every row *)
(* the DictReader yields is either reported as skipped or sent as a quiz   *)
(* poll.  Text is a sequence of one-character strings.  Indices are        *)
(* 1-based here (Python's are 0-based); row numbers are as in the code.    *)
(***************************************************************************)
EXTENDS Integers, Sequences, FiniteSets, TLC

\* ------------------------------------------------------------------------
\* Characters and Python's str methods
\* ------------------------------------------------------------------------
LowerChars == <<"a", "b", "c", "d", "e", "f", "g", "h", "i", "j", "k", "l", "m", "n", "o", "p", "q", "r", "s", "t", "u", "v", "w", "x", "y", "z">>
UpperChars == <<"A", "B", "C", "D", "E", "F", "G", "H", "I", "J", "K", "L", "M", "N", "O", "P", "Q", "R", "S", "T", "U", "V", "W", "X", "Y", "Z">>
DigitChars == <<"0", "1", "2", "3", "4", "5", "6", "7", "8", "9">>

Range(f) == {f[i] : i \in DOMAIN f}
Min(S) == CHOOSE x \in S : \A y \in S : x <= y
Max(S) == CHOOSE x \in S : \A y \in S : x >= y

\* The whitespace str.strip() removes, within the model's alphabet.
WhitespaceChars == {" ", "\t", "\n"}

AlnumChars == Range(LowerChars) \cup Range(UpperChars) \cup Range(DigitChars)
LowerOf == [ch \in Range(UpperChars) |->
              LowerChars[CHOOSE i \in DOMAIN UpperChars : UpperChars[i] = ch]]
UpperOf == [ch \in Range(LowerChars) |->
              UpperChars[CHOOSE i \in DOMAIN LowerChars : LowerChars[i] = ch]]

\* str.isalnum() of one character
isalnum(ch) == ch \in AlnumChars

\* str.lower() / str.upper() of one character
char_lower(ch) == IF ch \in DOMAIN LowerOf THEN LowerOf[ch] ELSE ch
char_upper(ch) == IF ch \in DOMAIN UpperOf THEN UpperOf[ch] ELSE ch

str_upper(s) == [i \in 1..Len(s) |-> char_upper(s[i])]

\* str.strip(): drop leading and trailing whitespace
RECURSIVE lstrip_at(_, _)
lstrip_at(s, i) ==
    IF i <= Len(s) /\ s[i] \in WhitespaceChars THEN lstrip_at(s, i + 1) ELSE i
RECURSIVE rstrip_at(_, _)
rstrip_at(s, i) ==
    IF i >= 1 /\ s[i] \in WhitespaceChars THEN rstrip_at(s, i - 1) ELSE i
str_strip(s) == SubSeq(s, lstrip_at(s, 1), rstrip_at(s, Len(s)))

\* s[:n]
str_prefix(s, n) == SubSeq(s, 1, IF Len(s) < n THEN Len(s) ELSE n)

\* ------------------------------------------------------------------------
\* Required headers and header normalisation
\* ------------------------------------------------------------------------
H_Question == <<"Q", "u", "e", "s", "t", "i", "o", "n">>
H_OptionA == <<"O", "p", "t", "i", "o", "n", " ", "A">>
H_OptionB == <<"O", "p", "t", "i", "o", "n", " ", "B">>
H_OptionC == <<"O", "p", "t", "i", "o", "n", " ", "C">>
H_OptionD == <<"O", "p", "t", "i", "o", "n", " ", "D">>
H_Answer == <<"A", "n", "s", "w", "e", "r">>
H_Description == <<"D", "e", "s", "c", "r", "i", "p", "t", "i", "o", "n">>

REQUIRED_HEADERS ==
    <<H_Question, H_OptionA, H_OptionB, H_OptionC, H_OptionD, H_Answer, H_Description>>

\* keep the alphanumeric characters, lower-cased
normalize_header(h) ==
    LET kept == SelectSeq(h, isalnum)
    IN  [i \in 1..Len(kept) |-> char_lower(kept[i])]

REQUIRED_NORMALS == {normalize_header(REQUIRED_HEADERS[i]) : i \in DOMAIN REQUIRED_HEADERS}

\* _normalize_header("Question"), ... as the loop computes them
N_Question == normalize_header(H_Question)
N_OptionA == normalize_header(H_OptionA)
N_OptionB == normalize_header(H_OptionB)
N_OptionC == normalize_header(H_OptionC)
N_OptionD == normalize_header(H_OptionD)
N_Answer == normalize_header(H_Answer)
N_Description == normalize_header(H_Description)

\* ------------------------------------------------------------------------
\* csv.reader over io.StringIO: lines end at "\n", cells at the delimiter.
\* The alphabet has no quote character, so quoting plays no part.
\* ------------------------------------------------------------------------
\* index of the first d in s, Len(s) + 1 when there is none
find(s, d) == Min({i \in 1..Len(s) : s[i] = d} \cup {Len(s) + 1})

RECURSIVE split(_, _)
split(s, d) ==
    LET at == find(s, d)
    IN  IF at > Len(s) THEN <<s>>
        ELSE <<SubSeq(s, 1, at - 1)>> \o split(SubSeq(s, at + 1, Len(s)), d)

\* (mutant of text_lines) the text is stripped before it is split into lines
text_lines_stripped(text) ==
    LET parts == split(str_strip(text), "\n")
    IN  IF parts[Len(parts)] = <<>> THEN SubSeq(parts, 1, Len(parts) - 1) ELSE parts

\* The lines io.StringIO iterates over, without their line ends: a final
\* "\n" ends the last line and starts no new one.
text_lines(text) ==
    LET parts == split(text, "\n")
    IN  IF parts[Len(parts)] = <<>> THEN SubSeq(parts, 1, Len(parts) - 1) ELSE parts

\* One record per line; an empty line is the empty record [].
csv_reader(text, delimiter) ==
    LET lines == text_lines(text)
    IN  [k \in 1..Len(lines) |->
            IF lines[k] = <<>> THEN <<>> ELSE split(lines[k], delimiter)]

\* csv.DictReader(fieldnames=headers): dict(zip(fieldnames, row)), where a
\* repeated field name keeps its last cell, and the field names beyond a
\* short row get restval = None.  Cells beyond the field names go under the
\* key None, which no header names.
None == <<"<None>">>
DictReader_row(fieldnames, rec) ==
    [name \in Range(fieldnames) |->
        LET last == Max({i \in 1..Len(fieldnames) : fieldnames[i] = name})
        IN  IF last <= Len(rec) THEN rec[last] ELSE None]

\* (mutant of dict_reader_next) empty records are returned like the others
dict_reader_next_noskip(records, pos) == IF pos < Len(records) THEN pos + 1 ELSE 0

\* DictReader.__next__ skips the records that are []: the index of the next
\* record it returns after position pos, 0 when the reader is exhausted.
dict_reader_next(records, pos) ==
    LET rest == {j \in (pos + 1)..Len(records) : records[j] # <<>>}
    IN  IF rest = {} THEN 0 ELSE Min(rest)

\* ------------------------------------------------------------------------
\* process_csv_content: header matching
\* ------------------------------------------------------------------------
header_norms_of(headers) == [i \in 1..Len(headers) |-> normalize_header(headers[i])]

\* (mutant of header_map_of) the first idx of a key is kept
header_map_first(header_norms) ==
    [hn \in Range(header_norms) |->
        Min({idx \in 1..Len(header_norms) : header_norms[idx] = hn})]

\* {hn: idx for idx, hn in enumerate(header_norms)}: a later idx overwrites
header_map_of(header_norms) ==
    [hn \in Range(header_norms) |->
        Max({idx \in 1..Len(header_norms) : header_norms[idx] = hn})]

missing_of(header_norms) == REQUIRED_NORMALS \ Range(header_norms)

\* (mutant of human_missing_of) the search stops after the first missing key
human_missing_first(missing, order) ==
    LET inOrder == SelectSeq(order,
                     LAMBDA k : normalize_header(REQUIRED_HEADERS[k]) \in missing)
    IN  IF inOrder = <<>> THEN <<>> ELSE <<REQUIRED_HEADERS[inOrder[1]]>>

\* The list human_missing: one required header per missing key, in the
\* order the set `missing` is iterated.  order is a sequence of the
\* positions 1..7 of REQUIRED_HEADERS, the iteration order of the process.
human_missing_of(missing, order) ==
    LET inOrder == SelectSeq(order,
                     LAMBDA k : normalize_header(REQUIRED_HEADERS[k]) \in missing)
    IN  [i \in 1..Len(inOrder) |->
            REQUIRED_HEADERS[Min({r \in DOMAIN REQUIRED_HEADERS :
                normalize_header(REQUIRED_HEADERS[r])
                    = normalize_header(REQUIRED_HEADERS[inOrder[i]])})]]

\* ------------------------------------------------------------------------
\* process_csv_content: one row
\* ------------------------------------------------------------------------
get_from_row(headers, header_map, row, req_normal) ==
    LET idx == header_map[req_normal]
        orig_header == headers[idx]
        v == row[orig_header]
    IN  str_strip(IF v = None THEN <<>> ELSE v)

MaxExplanation == 240
KeptExplanation == 237
Ellipsis == <<".", ".", ".">>

\* (mutant of trim_explanation) an explanation of exactly 240 is cut too
trim_explanation_at_limit(explanation) ==
    IF Len(explanation) >= MaxExplanation
    THEN str_prefix(explanation, KeptExplanation) \o Ellipsis
    ELSE explanation

\* if len(explanation) > 240: explanation = explanation[:237] + "..."
trim_explanation(explanation) ==
    IF Len(explanation) > MaxExplanation
    THEN str_prefix(explanation, KeptExplanation) \o Ellipsis
    ELSE explanation

\* (mutant of mapper) the options are counted from 1
mapper_from_one == (<<"A">> :> 1) @@ (<<"B">> :> 2) @@ (<<"C">> :> 3) @@ (<<"D">> :> 4)

\* mapper = {"A": 0, "B": 1, "C": 2, "D": 3}
mapper == (<<"A">> :> 0) @@ (<<"B">> :> 1) @@ (<<"C">> :> 2) @@ (<<"D">> :> 3)

\* The values extracted from one row of the DictReader
extract(headers, header_map, rec) ==
    LET row == DictReader_row(headers, rec)
        g(req_normal) == get_from_row(headers, header_map, row, req_normal)
    IN  [question |-> g(N_Question),
         options |-> <<g(N_OptionA), g(N_OptionB), g(N_OptionC), g(N_OptionD)>>,
         answer_key |-> str_upper(g(N_Answer)),
         explanation |-> g(N_Description)]

\* ------------------------------------------------------------------------
\* Input texts
\* ------------------------------------------------------------------------
MaxRows == 3
MaxRuns == 2

V_Q1 == <<"Q", "1">>
V_Q2 == <<" ", "Q", "2", "?", " ">>
V_ok == <<"o", "k">>
V_junk == <<"j">>

\* an explanation of n characters that neither starts nor ends with a space
Expl(n) == [i \in 1..n |-> IF i % 5 = 0 /\ i < n THEN " " ELSE LowerChars[(i % 26) + 1]]

\* A row is written from the values of its seven fields; alt fills a column
\* whose header is repeated by a later column, and cut is the number of
\* cells written (0: an empty line).
Kind(q, o1, o2, o3, o4, a, e, alt, cut) ==
    [q |-> q, opts |-> <<o1, o2, o3, o4>>, a |-> a, e |-> e, alt |-> alt, cut |-> cut]

RowKinds ==
    << Kind(V_Q1, <<"w">>, <<"x">>, <<"y">>, <<"z">>, <<"A">>, V_ok, <<"C">>, 9),
       Kind(V_Q1, <<"w">>, <<"x">>, <<"y">>, <<"z">>, <<"e">>, V_ok, <<"C">>, 9),
       Kind(V_Q2, <<"w">>, <<" ", "x">>, <<"y">>, <<"z">>, <<" ", "b">>, <<>>, <<>>, 9),
       Kind(<<>>, <<>>, <<"x">>, <<"y">>, <<"z">>, <<"E">>, V_ok, <<"C">>, 9),
       Kind(V_Q1, <<"w">>, <<"x">>, <<"y">>, <<"z">>, <<"c">>, Expl(MaxExplanation + 1), <<"D">>, 9),
       Kind(V_Q1, <<>>, <<>>, <<>>, <<>>, <<>>, <<>>, <<>>, 0),
       Kind(V_Q1, <<"w">>, <<"x">>, <<" ">>, <<"z">>, <<"F">>, V_ok, <<"A">>, 9),
       Kind(V_Q2, <<"w">>, <<"x">>, <<"y">>, <<"z">>, <<"D", " ">>, Expl(MaxExplanation), <<"b">>, 9),
       Kind(V_Q1, <<"w">>, <<"x">>, <<"y">>, <<"z">>, <<"B">>, V_ok, <<"C">>, 2),
       Kind(V_Q1, <<"w">>, <<"x">>, <<"y">>, <<"z">>, <<>>, V_ok, <<"w">>, 9),
       Kind(V_Q1, <<"w">>, <<"x">>, <<"y">>, <<"z">>, <<"a">>, Expl(MaxExplanation + 8), <<"C">>, 9),
       Kind(<<" ">>, <<"w">>, <<>>, <<"y">>, <<"z">>, <<"Z">>, V_ok, <<"C">>, 9),
       Kind(V_Q1, <<"w">>, <<"x">>, <<"y">>, <<"z">>, <<"C">>, <<" ", "o", "k", " ">>, <<>>, 9),
       Kind(V_Q1, <<"w">>, <<"x">>, <<"y">>, <<"z">>, <<"A", "B">>, V_ok, <<"C">>, 9),
       Kind(V_Q1, <<"w">>, <<"x">>, <<"y">>, <<"z">>, <<"d">>, Expl(KeptExplanation), <<"C">>, 9),
       Kind(V_Q1, <<"w">>, <<"x">>, <<"y">>, <<"z">>, <<"B">>, V_ok, <<"C">>, 9) >>

row_cells(hdr, kind) ==
    LET key(i) == normalize_header(hdr[i])
        cell(i) ==
            IF \E j \in (i + 1)..Len(hdr) : key(j) = key(i) THEN kind.alt
            ELSE IF key(i) = normalize_header(H_Question) THEN kind.q
            ELSE IF key(i) = normalize_header(H_OptionA) THEN kind.opts[1]
            ELSE IF key(i) = normalize_header(H_OptionB) THEN kind.opts[2]
            ELSE IF key(i) = normalize_header(H_OptionC) THEN kind.opts[3]
            ELSE IF key(i) = normalize_header(H_OptionD) THEN kind.opts[4]
            ELSE IF key(i) = normalize_header(H_Answer) THEN kind.a
            ELSE IF key(i) = normalize_header(H_Description) THEN kind.e
            ELSE V_junk
        n == IF kind.cut < Len(hdr) THEN kind.cut ELSE Len(hdr)
    IN  [i \in 1..n |-> cell(i)]

\* n rows: every stride-th kind of RowKinds from start on, cyclically
rows_of(hdr, start, stride, n) ==
    [i \in 1..n |-> row_cells(hdr, RowKinds[((start + (i - 1) * stride - 1) % Len(RowKinds)) + 1])]

RECURSIVE join(_, _)
join(parts, sep) ==
    IF parts = <<>> THEN <<>>
    ELSE IF Len(parts) = 1 THEN parts[1]
    ELSE parts[1] \o <<sep>> \o join(Tail(parts), sep)

\* the text of a header row and rows, comma-delimited; nl: a final line end
unparse(hdr, rows, nl) ==
    LET lines == [k \in 1..(1 + Len(rows)) |->
                    join(IF k = 1 THEN hdr ELSE rows[k - 1], ",")]
    IN  join(lines, "\n") \o (IF nl THEN <<"\n">> ELSE <<>>)

Without(s, i) == SubSeq(s, 1, i - 1) \o SubSeq(s, i + 1, Len(s))

ValidHeaders ==
    { REQUIRED_HEADERS,
      << <<"d", "e", "s", "c", "r", "i", "p", "t", "i", "o", "n">>,
         <<"A", "N", "S", "W", "E", "R">>,
         <<"o", "p", "t", "i", "o", "n", "-", "d">>,
         <<"O", "p", "t", "i", "o", "n", "C">>,
         <<"o", "p", "t", "i", "o", "n", " ", "b">>,
         <<"O", "P", "T", "I", "O", "N", "_", "A">>,
         <<" ", "q", "u", "e", "s", "t", "i", "o", "n", "?">> >>,
      REQUIRED_HEADERS \o << <<"o", "p", "t", "i", "o", "n", "-", "a">> >>,
      <<H_Answer>> \o REQUIRED_HEADERS,
      << <<"I", "d">> >> \o REQUIRED_HEADERS }

FatalHeaders ==
    { Without(REQUIRED_HEADERS, i) : i \in DOMAIN REQUIRED_HEADERS }
    \cup { <<H_Question, H_OptionA, H_OptionB, H_Answer, H_Description>>,
           << <<"I", "d">>, H_Question >> }

\* the empty text, texts of whitespace only, and a text whose first line is empty
RawTexts ==
    { <<>>, <<"\n">>, <<" ">>, <<"\t">>, <<" ", "\n", "\t">>, <<"\n", "\n">>,
      <<" ", " ", "\n", " ", " ", "\n">>,
      <<"\n">> \o unparse(REQUIRED_HEADERS, rows_of(REQUIRED_HEADERS, 1, 1, 1), FALSE) }

\* texts with at most one row
ShortTexts ==
    RawTexts
    \cup { unparse(h, rows_of(h, 1, 1, n), FALSE) : h \in FatalHeaders, n \in 0..1 }
    \cup { unparse(h, <<>>, nl) : h \in ValidHeaders, nl \in BOOLEAN }

\* texts of MaxRows rows, written with commas
RowTexts ==
    { unparse(h, rows_of(h, start, stride, MaxRows), stride = 1) :
        h \in ValidHeaders, start \in DOMAIN RowKinds, stride \in {1, 5} }

\* the texts process_csv_content is called twice with
AgainTexts ==
    { unparse(h, rows_of(h, start, 1, MaxRows), TRUE) :
        h \in ValidHeaders, start \in DOMAIN RowKinds }

\* Delimiters csv.Sniffer may settle on: the comma (also the csv.excel
\* fallback), a space, a tab, or a letter that is frequent in the sample.
\* Which one it picks for a text is not modelled: every choice is explored.
Delimiters == {",", " ", "\t", "Q"}

\* Orders in which the set `missing` may be iterated.  The order depends on
\* the hash seed of the process and on how the set was built, so it is
\* fixed for a given text within one process, and open otherwise.
SetOrders == { <<1, 2, 3, 4, 5, 6, 7>>, <<7, 6, 5, 4, 3, 2, 1>>, <<4, 2, 6, 1, 7, 3, 5>> }

\* ------------------------------------------------------------------------
\* State
\* ------------------------------------------------------------------------
VARIABLES
    text,        \* csv_file_content
    sniffed,     \* the delimiter csv.Sniffer infers for text (or the fallback)
    set_order,   \* order in which this process iterates `missing`; <<>> until used
    run,         \* number of the current call of process_csv_content
    history,     \* the logs of the finished calls
    pc,          \* position in process_csv_content
    headers,     \* headers
    header_map,  \* header_map
    records,     \* the records the csv reader produces from text
    pos,         \* index in records of the record the DictReader returned last
    row_number,  \* row_number
    count,       \* count
    log          \* replies and polls sent by this call, in order

vars == <<text, sniffed, set_order, run, history, pc, headers, header_map,
          records, pos, row_number, count, log>>

NoPoll == [question |-> <<>>, options |-> <<>>, correct_option_id |-> -1, explanation |-> <<>>]

Entry(type) ==
    [type |-> type, row |-> 0, reason |-> "", value |-> <<>>, question |-> <<>>,
     poll |-> NoPoll, missing |-> <<>>, found |-> <<>>, count |-> 0]

Locals0 ==
    /\ pc = "start"
    /\ headers = <<>>
    /\ header_map = <<>>
    /\ records = <<>>
    /\ pos = 0
    /\ row_number = 0
    /\ count = 0
    /\ log = <<>>

Input(rowTexts) ==
    /\ text \in ShortTexts \cup rowTexts
    /\ sniffed \in Delimiters

Init ==
    /\ Input(RowTexts)
    /\ set_order = <<>>
    /\ run = 1
    /\ history = <<>>
    /\ Locals0

\* ------------------------------------------------------------------------
\* process_csv_content up to its first reply.  Each action below runs the
\* code from one await to the next.
\* ------------------------------------------------------------------------
\* next(reader) raises StopIteration: "CSV appears to be empty", return
ReplyEmpty ==
    /\ pc = "start"
    /\ csv_reader(text, sniffed) = <<>>
    /\ log' = Append(log, Entry("empty"))
    /\ pc' = "done"
    /\ UNCHANGED <<text, sniffed, set_order, run, history, headers, header_map,
                   records, pos, row_number, count>>

\* required headers are missing: "CSV headers missing or mismatched", return
ReplyMissing ==
    /\ pc = "start"
    /\ csv_reader(text, sniffed) # <<>>
    /\ LET recs == csv_reader(text, sniffed)
           hdrs == recs[1]
           header_norms == header_norms_of(hdrs)
           missing == missing_of(header_norms)
       IN  /\ missing # {}
           /\ \E order \in SetOrders :
                /\ set_order \in {<<>>, order}
                /\ set_order' = order
                /\ log' = Append(log, [Entry("missing") EXCEPT
                              !.missing = human_missing_of(missing, order),
                              !.found = hdrs])
           /\ headers' = hdrs
           /\ header_map' = header_map_of(header_norms)
    /\ pc' = "done"
    /\ UNCHANGED <<text, sniffed, run, history, records, pos, row_number, count>>

\* all required headers are there: the DictReader is set up over the whole
\* text, its first row (the header row) is skipped, "Processing quiz..."
BeginProcessing ==
    /\ pc = "start"
    /\ csv_reader(text, sniffed) # <<>>
    /\ LET recs == csv_reader(text, sniffed)
           hdrs == recs[1]
           header_norms == header_norms_of(hdrs)
       IN  /\ missing_of(header_norms) = {}
           /\ headers' = hdrs
           /\ header_map' = header_map_of(header_norms)
           /\ records' = recs
           /\ pos' = dict_reader_next(recs, 0)
    /\ count' = 0
    /\ log' = Append(log, Entry("processing"))
    /\ pc' = "rows"
    /\ UNCHANGED <<text, sniffed, set_order, run, history, row_number>>

\* ------------------------------------------------------------------------
\* The loop over the DictReader.  get_from_row cannot raise here (every
\* required key is in header_map and every header is a key of the row), so
\* the "unable to parse columns" branch is never taken.
\* ------------------------------------------------------------------------
\* the DictReader has a next row; its values; enumerate(dict_reader, start=1)
HasNext == pc = "rows" /\ dict_reader_next(records, pos) # 0
NextFields == extract(headers, header_map, records[dict_reader_next(records, pos)])

Advance ==
    /\ pos' = dict_reader_next(records, pos)
    /\ row_number' = row_number + 1

\* (mutant of validate) the answer is checked before the question and options
validate_answer_first(f) ==
    IF f.answer_key \notin DOMAIN mapper THEN "invalid answer"
    ELSE IF f.question = <<>> THEN "empty question"
    ELSE IF \E i \in 1..4 : f.options[i] = <<>> THEN "missing options"
    ELSE "ok"

\* the basic validations, in the order of the code: the first that fails
validate(f) ==
    IF f.question = <<>> THEN "empty question"
    ELSE IF \E i \in 1..4 : f.options[i] = <<>> THEN "missing options"
    ELSE IF f.answer_key \notin DOMAIN mapper THEN "invalid answer"
    ELSE "ok"

poll_of(f) ==
    [question |-> f.question, options |-> f.options,
     correct_option_id |-> mapper[f.answer_key],
     explanation |-> trim_explanation(f.explanation)]

SkipEmptyQuestion ==
    /\ HasNext
    /\ validate(NextFields) = "empty question"
    /\ Advance
    /\ log' = Append(log, [Entry("skip") EXCEPT
                  !.row = row_number + 1, !.reason = "empty question"])
    /\ UNCHANGED <<text, sniffed, set_order, run, history, pc, headers, header_map,
                   records, count>>

SkipMissingOptions ==
    /\ HasNext
    /\ validate(NextFields) = "missing options"
    /\ Advance
    /\ log' = Append(log, [Entry("skip") EXCEPT
                  !.row = row_number + 1, !.reason = "missing options",
                  !.question = str_prefix(NextFields.question, 40)])
    /\ UNCHANGED <<text, sniffed, set_order, run, history, pc, headers, header_map,
                   records, count>>

SkipInvalidAnswer ==
    /\ HasNext
    /\ validate(NextFields) = "invalid answer"
    /\ Advance
    /\ log' = Append(log, [Entry("skip") EXCEPT
                  !.row = row_number + 1, !.reason = "invalid answer",
                  !.value = NextFields.answer_key,
                  !.question = str_prefix(NextFields.question, 40)])
    /\ UNCHANGED <<text, sniffed, set_order, run, history, pc, headers, header_map,
                   records, count>>

\* the row passed the validations: context.bot.send_poll is awaited
SendPoll ==
    /\ HasNext
    /\ validate(NextFields) = "ok"
    /\ Advance
    /\ log' = Append(log, [Entry("poll") EXCEPT
                  !.row = row_number + 1, !.poll = poll_of(NextFields)])
    /\ pc' = "sending"
    /\ UNCHANGED <<text, sniffed, set_order, run, history, headers, header_map,
                   records, count>>

\* send_poll returned: count += 1, sleep, next row
PollSent ==
    /\ pc = "sending"
    /\ count' = count + 1
    /\ pc' = "rows"
    /\ UNCHANGED <<text, sniffed, set_order, run, history, headers, header_map,
                   records, pos, row_number, log>>

\* (mutant of PollFailed) count is incremented although send_poll raised
PollFailed_counts ==
    /\ pc = "sending"
    /\ count' = count + 1
    /\ log' = Append(log, [Entry("poll_error") EXCEPT
                  !.row = row_number,
                  !.question = str_prefix(
                      extract(headers, header_map, records[pos]).question, 60)])
    /\ pc' = "rows"
    /\ UNCHANGED <<text, sniffed, set_order, run, history, headers, header_map,
                   records, pos, row_number>>

\* (mutant of PollFailed) the failure ends the batch
PollFailed_returns ==
    /\ pc = "sending"
    /\ log' = Append(log, [Entry("poll_error") EXCEPT
                  !.row = row_number,
                  !.question = str_prefix(
                      extract(headers, header_map, records[pos]).question, 60)])
    /\ pc' = "done"
    /\ UNCHANGED <<text, sniffed, set_order, run, history, headers, header_map,
                   records, pos, row_number, count>>

\* send_poll raised: "Error sending poll for question at row ...", next row
PollFailed ==
    /\ pc = "sending"
    /\ log' = Append(log, [Entry("poll_error") EXCEPT
                  !.row = row_number,
                  !.question = str_prefix(
                      extract(headers, header_map, records[pos]).question, 60)])
    /\ pc' = "rows"
    /\ UNCHANGED <<text, sniffed, set_order, run, history, headers, header_map,
                   records, pos, row_number, count>>

\* the DictReader is exhausted: "Done! Total {count} quizzes generated."
Finish ==
    /\ pc = "rows"
    /\ dict_reader_next(records, pos) = 0
    /\ log' = Append(log, [Entry("done") EXCEPT !.count = count])
    /\ pc' = "done"
    /\ UNCHANGED <<text, sniffed, set_order, run, history, headers, header_map,
                   records, pos, row_number, count>>

\* (mutant of CallAgain) the row counter outlives the call
CallAgain_keeps_row_number ==
    /\ pc = "done"
    /\ run < MaxRuns
    /\ run' = run + 1
    /\ history' = Append(history, log)
    /\ pc' = "start"
    /\ headers' = <<>>
    /\ header_map' = <<>>
    /\ records' = <<>>
    /\ pos' = 0
    /\ count' = 0
    /\ log' = <<>>
    /\ UNCHANGED <<text, sniffed, set_order, row_number>>

\* process_csv_content is called again with the same text; its locals are new
CallAgain ==
    /\ pc = "done"
    /\ run < MaxRuns
    /\ run' = run + 1
    /\ history' = Append(history, log)
    /\ pc' = "start"
    /\ headers' = <<>>
    /\ header_map' = <<>>
    /\ records' = <<>>
    /\ pos' = 0
    /\ row_number' = 0
    /\ count' = 0
    /\ log' = <<>>
    /\ UNCHANGED <<text, sniffed, set_order>>

Next ==
    \/ ReplyEmpty
    \/ ReplyMissing
    \/ BeginProcessing
    \/ SkipEmptyQuestion
    \/ SkipMissingOptions
    \/ SkipInvalidAnswer
    \/ SendPoll
    \/ PollSent
    \/ PollFailed
    \/ Finish

Spec == Init /\ [][Next]_vars

\* Two calls on the same text, one after the other in the same process
InitAgain ==
    /\ Input(AgainTexts)
    /\ set_order = <<>>
    /\ run = 1
    /\ history = <<>>
    /\ Locals0

NextAgain ==
    \/ Next
    \/ CallAgain

SpecAgain == InitAgain /\ [][NextAgain]_vars

\* ------------------------------------------------------------------------
\* What the properties speak of
\* ------------------------------------------------------------------------
\* the records of the text, as the csv reader splits it
Recs == csv_reader(text, sniffed)

\* the header row has all seven required headers, compared after normalisation
HeaderMatchesIn(recs) ==
    /\ recs # <<>>
    /\ LET hdr == recs[1]
           keys == {normalize_header(hdr[j]) : j \in DOMAIN hdr}
       IN  \A r \in DOMAIN REQUIRED_HEADERS : normalize_header(REQUIRED_HEADERS[r]) \in keys
HeaderMatches == HeaderMatchesIn(Recs)

\* the lines after the header line, and those of them that are not empty lines
DataRowsOf(recs) == SubSeq(recs, 2, Len(recs))
IsRow(r) == r # <<>>
ReadRowsOf(recs) == SelectSeq(DataRowsOf(recs), IsRow)

IsRowOutcome(e) == e.type \in {"skip", "poll"}
IsPoll(e) == e.type = "poll"
IsPollError(e) == e.type = "poll_error"
IsSummary(e) == e.type = "done"
RowOutcomes(l) == SelectSeq(l, IsRowOutcome)

\* the stripped cell of a row for a required key
SrcCell(rec, req_normal) ==
    get_from_row(headers, header_map, DictReader_row(headers, rec), req_normal)

WellFormed(rec) ==
    /\ SrcCell(rec, N_Question) # <<>>
    /\ SrcCell(rec, N_OptionA) # <<>>
    /\ SrcCell(rec, N_OptionB) # <<>>
    /\ SrcCell(rec, N_OptionC) # <<>>
    /\ SrcCell(rec, N_OptionD) # <<>>

LetterIndex ==
    (<<"a">> :> 0) @@ (<<"b">> :> 1) @@ (<<"c">> :> 2) @@ (<<"d">> :> 3) @@
    (<<"A">> :> 0) @@ (<<"B">> :> 1) @@ (<<"C">> :> 2) @@ (<<"D">> :> 3)

\* ------------------------------------------------------------------------
\* C1: when the header matches, every data row yields exactly one outcome.
\* ------------------------------------------------------------------------
\* C1 as claimed: at the end of a batch whose header matches, the number of
\* row outcomes (skip reports and poll attempts) is the number of lines
\* after the header line, empty lines included.
C1_OutcomePerLine ==
    pc = "done" =>
        LET recs == Recs
        IN  HeaderMatchesIn(recs) => Len(RowOutcomes(log)) = Len(DataRowsOf(recs))

\* C1 amended: every line after the header that is not an empty line yields
\* exactly one outcome, a skip report or a poll attempt; empty lines yield
\* none.  At any moment the rows read so far have one outcome each, and at
\* the end all non-empty lines have been read.
C1_OutcomePerReadRow ==
    LET recs == Recs
    IN  HeaderMatchesIn(recs) =>
            /\ row_number = Cardinality({j \in 2..pos : recs[j] # <<>>})
            /\ \A k \in 1..row_number :
                 Cardinality({i \in DOMAIN log :
                                IsRowOutcome(log[i]) /\ log[i].row = k}) = 1
            /\ Len(RowOutcomes(log)) = row_number
            /\ pc = "done" => row_number = Len(ReadRowsOf(recs))

C1_Witness ==
    /\ pc = "done"
    /\ \E i, j \in DOMAIN log : log[i].type = "skip" /\ log[j].type = "poll"
    /\ LET recs == Recs
       IN  /\ HeaderMatchesIn(recs)
           /\ \E j \in 2..Len(recs) : recs[j] = <<>>

\* ------------------------------------------------------------------------
\* C2: a header row that lacks required headers ends the batch with one
\* reply that lists exactly the required headers that are absent; no row
\* is read, nothing is skipped or sent, no summary is given.
\* ------------------------------------------------------------------------
AbsentHeaders(hdr) ==
    LET keys == {normalize_header(hdr[j]) : j \in DOMAIN hdr}
    IN  { REQUIRED_HEADERS[r] : r \in
            { r \in DOMAIN REQUIRED_HEADERS :
                normalize_header(REQUIRED_HEADERS[r]) \notin keys } }

C2_MissingHeadersFatal ==
    LET recs == Recs
    IN  (recs # <<>> /\ ~HeaderMatchesIn(recs)) =>
            /\ pc \in {"start", "done"}
            /\ row_number = 0 /\ pos = 0 /\ records = <<>>
            /\ pc = "start" => log = <<>>
            /\ pc = "done" =>
                 LET absent == AbsentHeaders(recs[1])
                 IN  /\ Len(log) = 1
                     /\ log[1].type = "missing"
                     /\ Range(log[1].missing) = absent
                     /\ Len(log[1].missing) = Cardinality(absent)
                     /\ log[1].found = recs[1]

C2_Witness ==
    /\ pc = "done"
    /\ Len(log) = 1
    /\ log[1].type = "missing"
    /\ Len(log[1].missing) = 2
    /\ Len(log[1].found) = 5
    /\ Len(Recs) > 1

\* ------------------------------------------------------------------------
\* C3: a text that is empty once whitespace is trimmed ends the batch with
\* one "empty" reply.
\* ------------------------------------------------------------------------
WhitespaceOnly == \A i \in DOMAIN text : text[i] \in WhitespaceChars

\* C3 as claimed: every text of whitespace only (the empty text included)
\* gets the single reply "CSV appears to be empty", and nothing else.
C3_WhitespaceIsEmptyInput ==
    (WhitespaceOnly /\ pc = "done") => log = <<Entry("empty")>>

\* C3 amended: the empty text gets the single reply "CSV appears to be
\* empty"; a text of one or more spaces, tabs and line ends gets a single
\* reply too, but it is the missing-headers reply, listing all seven
\* required headers.  In both cases no row is read and no summary is given.
C3_EmptyTextOnly ==
    WhitespaceOnly =>
        /\ pc \in {"start", "done"}
        /\ row_number = 0 /\ pos = 0
        /\ pc = "start" => log = <<>>
        /\ pc = "done" =>
             /\ Len(log) = 1
             /\ IF text = <<>>
                THEN log[1] = Entry("empty")
                ELSE /\ log[1].type = "missing"
                     /\ Range(log[1].missing) = Range(REQUIRED_HEADERS)
                     /\ Len(log[1].missing) = 7

C3_Witness ==
    /\ WhitespaceOnly
    /\ text # <<>>
    /\ pc = "done"
    /\ Len(log) = 1

\* ------------------------------------------------------------------------
\* C4: the answer letter decides between a poll with the matching correct
\* option and a skip that names the answer.
\* ------------------------------------------------------------------------
\* what C4 says of the k-th row read, given how a skip names the answer
AnswerRule(rec, out, named(_)) ==
    WellFormed(rec) =>
        LET ans == SrcCell(rec, N_Answer)
        IN  IF ans \in DOMAIN LetterIndex
            THEN /\ out.type = "poll"
                 /\ out.poll.correct_option_id = LetterIndex[ans]
            ELSE /\ out.type = "skip"
                 /\ out.reason = "invalid answer"
                 /\ out.value = named(ans)

AsWritten(ans) == ans

\* C4 as claimed: for a row with a question and four options, the answers
\* a, b, c, d, A, B, C, D give a poll whose correct option is 0, 1, 2, 3;
\* every other answer gives a skip whose reason holds the answer as it is
\* written in the (stripped) cell, and no poll.
C4_SkipNamesAnswerAsWritten ==
    LET recs == Recs
    IN  HeaderMatchesIn(recs) =>
            LET rows == ReadRowsOf(recs)
                outs == RowOutcomes(log)
            IN  \A k \in 1..Len(outs) : AnswerRule(rows[k], outs[k], AsWritten)

\* C4 amended: as claimed, except that the skip's reason holds the answer
\* in upper case ('E' for the cell e).
C4_SkipNamesAnswerUpperCased ==
    LET recs == Recs
    IN  HeaderMatchesIn(recs) =>
            LET rows == ReadRowsOf(recs)
                outs == RowOutcomes(log)
            IN  \A k \in 1..Len(outs) : AnswerRule(rows[k], outs[k], str_upper)

C4_Witness ==
    /\ pc = "done"
    /\ LET recs == Recs
       IN  /\ HeaderMatchesIn(recs)
           /\ LET rows == ReadRowsOf(recs)
                  outs == RowOutcomes(log)
              IN  /\ \E k \in 1..Len(outs) :
                        /\ WellFormed(rows[k])
                        /\ SrcCell(rows[k], N_Answer) = <<"e">>
                        /\ outs[k].type = "skip"
                  /\ \E k \in 1..Len(outs) :
                        /\ WellFormed(rows[k])
                        /\ SrcCell(rows[k], N_Answer) = <<"b">>
                        /\ outs[k].poll.correct_option_id = 1

\* ------------------------------------------------------------------------
\* C5: the validations are applied in the order question, options, answer,
\* and the first that fails alone gives the reason of the skip: an empty
\* question is reported as "empty question" whatever the options and the
\* answer are, and an empty option under a question as "missing options"
\* whatever the answer is.
\* ------------------------------------------------------------------------
C5_FirstFailureWins ==
    LET recs == Recs
    IN  HeaderMatchesIn(recs) =>
            LET rows == ReadRowsOf(recs)
                outs == RowOutcomes(log)
            IN  \A k \in 1..Len(outs) :
                    LET q == SrcCell(rows[k], N_Question)
                        noOption ==
                            \E n \in {N_OptionA, N_OptionB, N_OptionC, N_OptionD} :
                                SrcCell(rows[k], n) = <<>>
                    IN  /\ q = <<>> =>
                            outs[k].type = "skip" /\ outs[k].reason = "empty question"
                        /\ (q # <<>> /\ noOption) =>
                            outs[k].type = "skip" /\ outs[k].reason = "missing options"

C5_Witness ==
    /\ pc = "done"
    /\ LET recs == Recs
       IN  /\ HeaderMatchesIn(recs)
           /\ LET rows == ReadRowsOf(recs)
                  outs == RowOutcomes(log)
                  badAnswer(k) == SrcCell(rows[k], N_Answer) \notin DOMAIN LetterIndex
                  noOption(k) == SrcCell(rows[k], N_OptionB) = <<>>
                                    \/ SrcCell(rows[k], N_OptionC) = <<>>
              IN  /\ \E k \in 1..Len(outs) :
                        /\ SrcCell(rows[k], N_Question) = <<>>
                        /\ noOption(k) /\ badAnswer(k)
                        /\ outs[k].reason = "empty question"
                  /\ \E k \in 1..Len(outs) :
                        /\ SrcCell(rows[k], N_Question) # <<>>
                        /\ noOption(k) /\ badAnswer(k)
                        /\ outs[k].reason = "missing options"

\* ------------------------------------------------------------------------
\* C6: an explanation of at most 240 characters is sent as it is; a longer
\* one is sent as its first 237 characters followed by "...", 240 in all.
\* A long explanation never makes the row a skip.
\* ------------------------------------------------------------------------
C6_ExplanationCap ==
    LET recs == Recs
    IN  HeaderMatchesIn(recs) =>
            LET rows == ReadRowsOf(recs)
                outs == RowOutcomes(log)
            IN  \A k \in 1..Len(outs) :
                    LET src == SrcCell(rows[k], N_Description)
                        sent == outs[k].poll.explanation
                    IN  /\ (WellFormed(rows[k])
                              /\ SrcCell(rows[k], N_Answer) \in DOMAIN LetterIndex)
                           => outs[k].type = "poll"
                        /\ (outs[k].type = "poll" /\ Len(src) <= 240) => sent = src
                        /\ (outs[k].type = "poll" /\ Len(src) > 240) =>
                              /\ Len(sent) = 240
                              /\ SubSeq(sent, 1, 237) = SubSeq(src, 1, 237)
                              /\ SubSeq(sent, 238, 240) = <<".", ".", ".">>

C6_Witness ==
    /\ pc = "done"
    /\ LET recs == Recs
       IN  /\ HeaderMatchesIn(recs)
           /\ LET rows == ReadRowsOf(recs)
                  outs == RowOutcomes(log)
              IN  \E k \in 1..Len(outs) :
                     /\ outs[k].type = "poll"
                     /\ Len(SrcCell(rows[k], N_Description)) = 241
                     /\ Len(outs[k].poll.explanation) = 240

\* ------------------------------------------------------------------------
\* C7: the summary comes once, after the last row, with the count of rows.
\* ------------------------------------------------------------------------
NumberOf(l, Test(_)) == Len(SelectSeq(l, Test))

\* C7 as claimed: at the end of a batch whose header matches, the summary
\* is the last entry and the only summary, and its count is the number of
\* rows that passed the validations, whether or not their poll was sent.
C7_SummaryCountsAccepted ==
    (pc = "done" /\ HeaderMatches) =>
        /\ NumberOf(log, IsSummary) = 1
        /\ log[Len(log)].type = "done"
        /\ log[Len(log)].count = NumberOf(log, IsPoll)

\* C7 amended: as claimed, except that the count is the number of rows
\* whose poll was sent without error; a row that passed the validations and
\* whose send_poll raised is not counted.
C7_SummaryCountsSent ==
    LET recs == Recs
    IN  HeaderMatchesIn(recs) =>
            /\ pc # "done" => NumberOf(log, IsSummary) = 0
            /\ pc = "done" =>
                 /\ NumberOf(log, IsSummary) = 1
                 /\ log[Len(log)].type = "done"
                 /\ log[Len(log)].count =
                        NumberOf(log, IsPoll) - NumberOf(log, IsPollError)

C7_Witness ==
    /\ pc = "done"
    /\ HeaderMatches
    /\ NumberOf(log, IsPollError) > 0
    /\ log[Len(log)].count > 0

\* ------------------------------------------------------------------------
\* C8: when several header cells normalise to the same key, which of them
\* a field is read from.
\* ------------------------------------------------------------------------
CellsOf(hdr, key) == {i \in DOMAIN hdr : normalize_header(hdr[i]) = key}
StrippedAt(rec, i) == IF i <= Len(rec) THEN str_strip(rec[i]) ELSE <<>>

\* what C8 says of a batch, given which of the cells of a key is chosen
ReadFrom(recs, Chosen(_)) ==
    LET hdr == recs[1]
        rows == ReadRowsOf(recs)
        outs == RowOutcomes(log)
        col(key) == Chosen(CellsOf(hdr, key))
    IN  /\ \A key \in REQUIRED_NORMALS : header_map[key] = col(key)
        /\ \A k \in 1..Len(outs) :
              /\ outs[k].type = "poll" =>
                    /\ outs[k].poll.question = StrippedAt(rows[k], col(N_Question))
                    /\ outs[k].poll.options =
                          << StrippedAt(rows[k], col(N_OptionA)),
                             StrippedAt(rows[k], col(N_OptionB)),
                             StrippedAt(rows[k], col(N_OptionC)),
                             StrippedAt(rows[k], col(N_OptionD)) >>
                    /\ LetterIndex[StrippedAt(rows[k], col(N_Answer))]
                          = outs[k].poll.correct_option_id
              /\ (outs[k].type = "skip" /\ outs[k].reason = "invalid answer") =>
                    outs[k].value = str_upper(StrippedAt(rows[k], col(N_Answer)))

\* C8 as claimed: the column of a required field is the first header cell
\* with its key, and every row's value of the field is read from there.
C8_FirstCellWins ==
    pc \in {"rows", "sending", "done"} =>
        LET recs == Recs IN HeaderMatchesIn(recs) => ReadFrom(recs, Min)

\* C8 amended: the column of a required field is the last header cell with
\* its key, and every row's value of the field is read from that last
\* column (empty when the row is too short to have it).
C8_LastCellWins ==
    pc \in {"rows", "sending", "done"} =>
        LET recs == Recs IN HeaderMatchesIn(recs) => ReadFrom(recs, Max)

C8_Witness ==
    /\ pc = "done"
    /\ LET recs == Recs
       IN  /\ HeaderMatchesIn(recs)
           /\ LET cells == CellsOf(recs[1], N_OptionA)
                  rows == ReadRowsOf(recs)
                  outs == RowOutcomes(log)
              IN  /\ Cardinality(cells) = 2
                  /\ recs[1][Min(cells)] # recs[1][Max(cells)]
                  /\ \E k \in 1..Len(outs) :
                        /\ outs[k].type = "poll"
                        /\ StrippedAt(rows[k], Min(cells)) # <<>>
                        /\ StrippedAt(rows[k], Min(cells)) # outs[k].poll.options[1]

\* ------------------------------------------------------------------------
\* C9: row outcomes come in the order of the rows, numbered 1, 2, 3, ...;
\* neither a skip nor a failed send_poll stops the batch or disturbs the
\* numbering: the next row is processed and gets the next number, until
\* the last row is done.
\* ------------------------------------------------------------------------
C9_NumberingAndProgress ==
    LET recs == Recs
    IN  HeaderMatchesIn(recs) =>
            LET rows == ReadRowsOf(recs)
                outs == RowOutcomes(log)
            IN  /\ Len(outs) <= Len(rows)
                /\ \A k \in 1..Len(outs) :
                      /\ outs[k].row = k
                      /\ outs[k].type = "poll" =>
                            outs[k].poll.question = SrcCell(rows[k], N_Question)
                      /\ outs[k].type = "skip" =>
                            outs[k].question \in
                               {<<>>, str_prefix(SrcCell(rows[k], N_Question), 40)}
                \* a failure reply follows the poll it is about, with its number
                /\ \A i \in DOMAIN log :
                      log[i].type = "poll_error" =>
                         /\ i > 1
                         /\ log[i - 1].type = "poll"
                         /\ log[i].row = log[i - 1].row
                \* the batch ends only when every row has its outcome
                /\ pc = "done" => Len(outs) = Len(rows)
                \* and after a skip or a failed send_poll it goes on
                /\ (pc = "rows" /\ log[Len(log)].type \in {"skip", "poll_error"})
                      => ENABLED Next

C9_Witness ==
    /\ pc = "done"
    /\ HeaderMatches
    /\ \E i \in DOMAIN log :
          /\ log[i].type = "skip"
          /\ i + 2 \in DOMAIN log
          /\ log[i + 1].type = "poll" /\ log[i + 1].row = log[i].row + 1
          /\ log[i + 2].type = "poll_error"
          /\ i + 3 \in DOMAIN log
          /\ IsRowOutcome(log[i + 3]) /\ log[i + 3].row = log[i].row + 2

\* ------------------------------------------------------------------------
\* C10: two calls with the same text give the same outcomes; nothing of the
\* first call (header_map, count, row_number) reaches the second.
\* ------------------------------------------------------------------------
\* the fatal replies and the row outcomes of a call; which polls fail to be
\* sent is decided outside process_csv_content
IsCoreOutcome(e) == e.type \in {"empty", "missing", "processing", "skip", "poll"}
Core(l) == SelectSeq(l, IsCoreOutcome)
FailedRows(l) == {l[i].row : i \in {i \in DOMAIN l : l[i].type = "poll_error"}}

====
